---------------------------- MODULE Spec2Model ----------------------------
(***************************************************************************)
(* A model of the state_space crate: SysVec (src/src/sys_vec.rs), a value  *)
(* vector with lower and upper bounds, and StateSpace (src/src/lib.rs),    *)
(* the A, B, C, D matrices, the vectors u, x, y and the time step dt, with *)
(* the forward-Euler update().                                             *)
(*                                                                         *)
(* The scalar type T is modelled by the integers.  Every operation of the  *)
(* crate on T is an addition, a multiplication or a comparison, and f64    *)
(* performs these exactly on integers of this size, so the model is the    *)
(* crate's arithmetic on the integer-valued part of T (no rounding).       *)
(* Vectors are tuples, matrices are tuples of rows.                        *)
(***************************************************************************)
EXTENDS Integers, Sequences, FiniteSets

(***************************************************************************)
(* Dimensions: the const generic parameters of StateSpace<T, NU, NX, NY>   *)
(* and the N of the stand-alone SysVec<T, N> of the clamp() doc test.      *)
(***************************************************************************)
NU == 1
NX == 2
NY == 2
N == 3

(***************************************************************************)
(* Bounds of the exploration: the number of setter calls and of update()   *)
(* calls the driver of the models makes in one run.                        *)
(***************************************************************************)
MaxSets == 4
MaxSteps == 3

\* The number of clamp() calls the second driver makes in a row.
MaxClamps == 2

(***************************************************************************)
(* The default bounds of SysVec::new().  The source has 9e99 and -9e99;    *)
(* the model's numbers are 32-bit integers, so the sentinel is scaled down *)
(* to a magnitude that is still larger than every value and every bound    *)
(* the callers of the model pass in.                                       *)
(***************************************************************************)
max_value == 90000
min_value == -max_value

(***************************************************************************)
(* nalgebra                                                                *)
(***************************************************************************)

\* SMatrix::from_element / SVector::from_element for a vector of n entries.
from_element(n, e) == [i \in 1..n |-> e]

\* SMatrix::from_element for a matrix of r rows and k columns.
from_element_mat(r, k, e) == [i \in 1..r |-> [j \in 1..k |-> e]]

\* SMatrix::identity (ones on the diagonal of an r x k matrix).
identity(r, k) == [i \in 1..r |-> [j \in 1..k |-> IF i = j THEN 1 ELSE 0]]

\* nalgebra::clamp(val, min, max):
\*   if val > min { if val < max { val } else { max } } else { min }
na_clamp(val, min, max) ==
    IF val > min THEN (IF val < max THEN val ELSE max) ELSE min

RECURSIVE Dot(_, _, _)
\* The inner product of row and v over the first k entries.
Dot(row, v, k) == IF k = 0 THEN 0 ELSE Dot(row, v, k - 1) + row[k] * v[k]

\* Matrix * vector.
MatVec(m, v) == [i \in 1..Len(m) |-> Dot(m[i], v, Len(v))]

\* Vector + vector.
VecAdd(v, w) == [i \in 1..Len(v) |-> v[i] + w[i]]

\* Vector * scalar.
VecScale(v, s) == [i \in 1..Len(v) |-> v[i] * s]

(***************************************************************************)
(* SysVec (src/src/sys_vec.rs)                                             *)
(***************************************************************************)

\* A constructor whose default upper bound is the zero it gives the value.
SysVec_new_zero_ub(n) ==
    [val |-> from_element(n, 0),
     lb  |-> from_element(n, min_value),
     ub  |-> from_element(n, 0)]

SysVec_new(n) ==
    [val |-> from_element(n, 0),
     lb  |-> from_element(n, min_value),
     ub  |-> from_element(n, max_value)]

\* A setter that clamps what it is given to the current bounds.
set_val_clamping(sv, val) ==
    [sv EXCEPT !.val = [i \in 1..Len(val) |-> na_clamp(val[i], sv.lb[i], sv.ub[i])]]

set_val(sv, val) == [sv EXCEPT !.val = val]

set_lb(sv, lb) == [sv EXCEPT !.lb = lb]

set_ub(sv, ub) == [sv EXCEPT !.ub = ub]

\* T::from(val) of an f64 that T holds exactly is that number.
from_val(n, val) == set_val(SysVec_new(n), from_element(n, val))

from_scalars(n, val, lb, ub) ==
    set_ub(set_lb(set_val(SysVec_new(n), from_element(n, val)),
                  from_element(n, lb)),
           from_element(n, ub))

get_val(sv) == sv.val

get_lb(sv) == sv.lb

get_ub(sv) == sv.ub

\* A clamp that only enforces the upper bound.
SysVec_clamp_upper_only(sv) ==
    [sv EXCEPT !.val = [i \in 1..Len(sv.val) |->
                           IF sv.val[i] < sv.ub[i] THEN sv.val[i] ELSE sv.ub[i]]]

\* A clamp that also moves the lower bound to the clamped value.
SysVec_clamp_moving_lb(sv) ==
    LET c == [i \in 1..Len(sv.val) |-> na_clamp(sv.val[i], sv.lb[i], sv.ub[i])]
    IN  [sv EXCEPT !.val = c, !.lb = c]

\* A clamp that hands the bounds to nalgebra::clamp in the wrong order.
SysVec_clamp_swapped(sv) ==
    [sv EXCEPT !.val = [i \in 1..Len(sv.val) |->
                           na_clamp(sv.val[i], sv.ub[i], sv.lb[i])]]

SysVec_clamp(sv) ==
    [sv EXCEPT !.val = [i \in 1..Len(sv.val) |->
                           na_clamp(sv.val[i], sv.lb[i], sv.ub[i])]]

\* An update that clamps the value in place and drops the one it is given.
SysVec_update_not_assigning(sv, val) == SysVec_clamp(sv)

SysVec_update(sv, val) == SysVec_clamp([sv EXCEPT !.val = val])

(***************************************************************************)
(* StateSpace (src/src/lib.rs)                                             *)
(***************************************************************************)

StateSpace_new ==
    [a  |-> from_element_mat(NX, NX, 0),
     b  |-> from_element_mat(NX, NU, 0),
     c  |-> from_element_mat(NY, NX, 0),
     d  |-> from_element_mat(NY, NU, 0),
     u  |-> SysVec_new(NU),
     x  |-> SysVec_new(NX),
     y  |-> SysVec_new(NY),
     dt |-> 1]

set_a(m, mat) == [m EXCEPT !.a = mat]

set_b(m, mat) == [m EXCEPT !.b = mat]

set_c(m, mat) == [m EXCEPT !.c = mat]

set_d(m, mat) == [m EXCEPT !.d = mat]

set_u(m, sv) == [m EXCEPT !.u = sv]

set_x(m, sv) == [m EXCEPT !.x = sv]

set_y(m, sv) == [m EXCEPT !.y = sv]

set_dt(m, dt) == [m EXCEPT !.dt = dt]

get_a(m) == m.a

get_b(m) == m.b

get_c(m) == m.c

get_d(m) == m.d

get_u(m) == get_val(m.u)

get_x(m) == get_val(m.x)

get_y(m) == get_val(m.y)

\* update() with the output equation evaluated on the new state x(n+1).
StateSpace_update_post_state(m) ==
    LET m1    == [m EXCEPT !.u = SysVec_clamp(m.u), !.x = SysVec_clamp(m.x)]
        u0    == get_val(m1.u)
        x0    == get_val(m1.x)
        x_dot == VecAdd(MatVec(m1.a, x0), MatVec(m1.b, u0))
        x1    == VecAdd(x0, VecScale(x_dot, m1.dt))
        m2    == [m1 EXCEPT !.x = SysVec_update(m1.x, x1)]
        yn    == VecAdd(MatVec(m2.c, get_val(m2.x)), MatVec(m2.d, u0))
    IN  [m2 EXCEPT !.y = SysVec_update(m2.y, yn)]

\* update() that leaves the time step out of the integrator.
StateSpace_update_no_dt(m) ==
    LET m1    == [m EXCEPT !.u = SysVec_clamp(m.u), !.x = SysVec_clamp(m.x)]
        u0    == get_val(m1.u)
        x0    == get_val(m1.x)
        x_dot == VecAdd(MatVec(m1.a, x0), MatVec(m1.b, u0))
        x1    == VecAdd(x0, x_dot)
        yn    == VecAdd(MatVec(m1.c, x0), MatVec(m1.d, u0))
    IN  [m1 EXCEPT !.x = SysVec_update(m1.x, x1),
                   !.y = SysVec_update(m1.y, yn)]

\* update() that accumulates the output onto the previous output.
StateSpace_update_accumulating(m) ==
    LET m1    == [m EXCEPT !.u = SysVec_clamp(m.u), !.x = SysVec_clamp(m.x)]
        u0    == get_val(m1.u)
        x0    == get_val(m1.x)
        x_dot == VecAdd(MatVec(m1.a, x0), MatVec(m1.b, u0))
        x1    == VecAdd(x0, VecScale(x_dot, m1.dt))
        yn    == VecAdd(get_val(m1.y),
                        VecAdd(MatVec(m1.c, x0), MatVec(m1.d, u0)))
    IN  [m1 EXCEPT !.x = SysVec_update(m1.x, x1),
                   !.y = SysVec_update(m1.y, yn)]

\* update() that consumes the input: u is reset once it has been read.
StateSpace_update_consuming_u(m) ==
    LET m1    == [m EXCEPT !.u = SysVec_clamp(m.u), !.x = SysVec_clamp(m.x)]
        u0    == get_val(m1.u)
        x0    == get_val(m1.x)
        x_dot == VecAdd(MatVec(m1.a, x0), MatVec(m1.b, u0))
        x1    == VecAdd(x0, VecScale(x_dot, m1.dt))
        yn    == VecAdd(MatVec(m1.c, x0), MatVec(m1.d, u0))
    IN  [m1 EXCEPT !.u = SysVec_update(m1.u, from_element(NU, 0)),
                   !.x = SysVec_update(m1.x, x1),
                   !.y = SysVec_update(m1.y, yn)]

\* update() that reads u without clamping it first.
StateSpace_update_u_unclamped(m) ==
    LET m1    == [m EXCEPT !.x = SysVec_clamp(m.x)]
        u0    == get_val(m1.u)
        x0    == get_val(m1.x)
        x_dot == VecAdd(MatVec(m1.a, x0), MatVec(m1.b, u0))
        x1    == VecAdd(x0, VecScale(x_dot, m1.dt))
        yn    == VecAdd(MatVec(m1.c, x0), MatVec(m1.d, u0))
    IN  [m1 EXCEPT !.x = SysVec_update(m1.x, x1),
                   !.y = SysVec_update(m1.y, yn)]

StateSpace_update(m) ==
    LET m1    == [m EXCEPT !.u = SysVec_clamp(m.u), !.x = SysVec_clamp(m.x)]
        u0    == get_val(m1.u)
        x0    == get_val(m1.x)
        x_dot == VecAdd(MatVec(m1.a, x0), MatVec(m1.b, u0))
        x1    == VecAdd(x0, VecScale(x_dot, m1.dt))
        yn    == VecAdd(MatVec(m1.c, x0), MatVec(m1.d, u0))
    IN  [m1 EXCEPT !.x = SysVec_update(m1.x, x1),
                   !.y = SysVec_update(m1.y, yn)]

(***************************************************************************)
(* The callers.  A driver owns two independently constructed models, sys   *)
(* and twin, and makes the same calls on both; only the value part of the  *)
(* vector handed to set_y may differ between them.  A second driver owns a *)
(* stand-alone SysVec<T, N>, vec.                                          *)
(*   lastOp  the last call made, arg its argument (<<>> when it has none)  *)
(*   nset    the number of setter calls made on the models so far          *)
(*   nupd    the number of update() calls made on the models so far        *)
(*   ydiff   whether sys and twin held different y.val when the last call  *)
(*           was made                                                      *)
(*   nclamp  the number of clamp() calls just made on vec in a row         *)
(***************************************************************************)
VARIABLES sys, twin, vec, lastOp, arg, nset, nupd, ydiff, nclamp

vars == <<sys, twin, vec, lastOp, arg, nset, nupd, ydiff, nclamp>>

\* The matrices the driver passes to set_a .. set_d: the zero matrix, the
\* -identity and identity of example 1 and a second-order system shaped as
\* in example 2 of src/src/lib.rs.
AMats == { from_element_mat(NX, NX, 0),
           << <<-1, 0>>, <<0, -1>> >>,
           << <<0, 1>>, <<-1, -1>> >> }

BMats == { from_element_mat(NX, NU, 0), << <<1>>, <<1>> >> }

CMats == { from_element_mat(NY, NX, 0), identity(NY, NX) }

DMats == { from_element_mat(NY, NU, 0), << <<1>>, <<0>> >> }

Dts == { 1, 2 }

\* The vectors the driver passes to set_u, set_x and set_y, built the way
\* src/src/main.rs builds them (from_val, from_scalars) or with the setters.
\* Some hold a value outside their bounds; some have lb > ub.
UArgs == { from_val(NU, 1),
           from_scalars(NU, 5, -2, 2),
           from_scalars(NU, -3, -2, 2) }

XArgs == { set_val(SysVec_new(NX), <<1, -2>>),
           from_scalars(NX, 3, -4, 4),
           from_scalars(NX, 7, -4, 4),
           from_scalars(NX, 0, 3, -3) }

YArgs == { from_val(NY, 5),
           from_scalars(NY, 0, -1, 1),
           from_scalars(NY, 0, 2, -2) }

\* The values the twin's y may hold instead, under the same bounds.
YTwinVals == { from_element(NY, 0), from_element(NY, 5) }

\* The values and bounds the second driver gives the stand-alone vector, in
\* units of 0.1: the clamp() doc test has val = [1.0, -314.1, 628.3],
\* lb = [-5.0, ...] and ub = [9.0, ...].
VecScalars == { -3141, 10, 6283 }

VecVals == { <<p, q, r>> : p \in {10, -60}, q \in {-3141, 20}, r \in {6283, 95} }

VecBounds == { -50, 90, 0 }

Init ==
    /\ sys = StateSpace_new
    /\ twin = StateSpace_new
    /\ vec = SysVec_new(N)
    /\ lastOp = "new"
    /\ arg = <<>>
    /\ nset = 0
    /\ nupd = 0
    /\ ydiff = FALSE
    /\ nclamp = 0

\* What every call on the two models records.
Called(op, a) ==
    /\ lastOp' = op
    /\ arg' = a
    /\ ydiff' = (get_y(sys) # get_y(twin))
    /\ UNCHANGED <<vec, nclamp>>

Setter(op, a) ==
    /\ nset < MaxSets
    /\ nset' = nset + 1
    /\ UNCHANGED nupd
    /\ Called(op, a)

CallSetA ==
    \E mat \in AMats :
        /\ sys' = set_a(sys, mat)
        /\ twin' = set_a(twin, mat)
        /\ Setter("set_a", mat)

CallSetB ==
    \E mat \in BMats :
        /\ sys' = set_b(sys, mat)
        /\ twin' = set_b(twin, mat)
        /\ Setter("set_b", mat)

CallSetC ==
    \E mat \in CMats :
        /\ sys' = set_c(sys, mat)
        /\ twin' = set_c(twin, mat)
        /\ Setter("set_c", mat)

CallSetD ==
    \E mat \in DMats :
        /\ sys' = set_d(sys, mat)
        /\ twin' = set_d(twin, mat)
        /\ Setter("set_d", mat)

CallSetDt ==
    \E dt \in Dts :
        /\ sys' = set_dt(sys, dt)
        /\ twin' = set_dt(twin, dt)
        /\ Setter("set_dt", dt)

CallSetU ==
    \E sv \in UArgs :
        /\ sys' = set_u(sys, sv)
        /\ twin' = set_u(twin, sv)
        /\ Setter("set_u", sv)

CallSetX ==
    \E sv \in XArgs :
        /\ sys' = set_x(sys, sv)
        /\ twin' = set_x(twin, sv)
        /\ Setter("set_x", sv)

\* set_y: the twin is handed a vector with the same bounds whose value may
\* be another one.
CallSetY ==
    \E sv \in YArgs : \E w \in YTwinVals \cup {get_val(sv)} :
        /\ sys' = set_y(sys, sv)
        /\ twin' = set_y(twin, set_val(sv, w))
        /\ Setter("set_y", sv)

CallUpdate ==
    /\ nupd < MaxSteps
    /\ sys' = StateSpace_update(sys)
    /\ twin' = StateSpace_update(twin)
    /\ nupd' = nupd + 1
    /\ UNCHANGED nset
    /\ Called("update", <<>>)

Next ==
    \/ CallSetA
    \/ CallSetB
    \/ CallSetC
    \/ CallSetD
    \/ CallSetDt
    \/ CallSetU
    \/ CallSetX
    \/ CallSetY
    \/ CallUpdate

Spec == Init /\ [][Next]_vars

(***************************************************************************)
(* The second driver: calls on the stand-alone vector.                     *)
(***************************************************************************)

VecCalled(op, a) ==
    /\ lastOp' = op
    /\ arg' = a
    /\ nclamp' = IF op = "clamp" THEN nclamp + 1 ELSE 0
    /\ UNCHANGED <<sys, twin, nset, nupd, ydiff>>

VecNew ==
    /\ vec' = SysVec_new(N)
    /\ VecCalled("new", <<>>)

VecFromScalars ==
    \E v \in VecScalars, lo \in VecBounds, hi \in VecBounds :
        /\ vec' = from_scalars(N, v, lo, hi)
        /\ VecCalled("from_scalars", <<v, lo, hi>>)

VecSetVal ==
    \E val \in VecVals :
        /\ vec' = set_val(vec, val)
        /\ VecCalled("set_val", val)

VecSetLb ==
    \E lo \in VecBounds :
        /\ vec' = set_lb(vec, from_element(N, lo))
        /\ VecCalled("set_lb", from_element(N, lo))

VecSetUb ==
    \E hi \in VecBounds :
        /\ vec' = set_ub(vec, from_element(N, hi))
        /\ VecCalled("set_ub", from_element(N, hi))

VecClamp ==
    /\ nclamp < MaxClamps
    /\ vec' = SysVec_clamp(vec)
    /\ VecCalled("clamp", <<>>)

VecUpdate ==
    \E val \in VecVals :
        /\ vec' = SysVec_update(vec, val)
        /\ VecCalled("update", val)

NextVec ==
    \/ VecNew
    \/ VecFromScalars
    \/ VecSetVal
    \/ VecSetLb
    \/ VecSetUb
    \/ VecClamp
    \/ VecUpdate

SpecVec == Init /\ [][NextVec]_vars

(***************************************************************************)
(* Properties.  The pre/post relations of a call are action formulas over  *)
(* the step that makes the call (lastOp' names it); the arithmetic they    *)
(* state is written out here with min and max, apart from the model.       *)
(***************************************************************************)

Min(p, q) == IF p <= q THEN p ELSE q

Max(p, q) == IF p >= q THEN p ELSE q

\* min(max(v, lo), hi)
ClampTo(v, lo, hi) == Min(Max(v, lo), hi)

\* lb[i] <= ub[i] for every i.
Ordered(sv) == \A i \in 1..Len(sv.val) : sv.lb[i] <= sv.ub[i]

\* lb[i] <= val[i] <= ub[i] for every i.
Within(sv) ==
    \A i \in 1..Len(sv.val) : sv.lb[i] <= sv.val[i] /\ sv.val[i] <= sv.ub[i]

\* The value of sv clamped per component to sv's own bounds.
Clamped(sv) == [i \in 1..Len(sv.val) |-> ClampTo(sv.val[i], sv.lb[i], sv.ub[i])]

RECURSIVE Sigma(_, _)
\* f[1] + ... + f[k]
Sigma(f, k) == IF k = 0 THEN 0 ELSE f[k] + Sigma(f, k - 1)

\* Row i of mat times the vector v.
RowTimes(mat, i, v) == Sigma([j \in 1..Len(v) |-> mat[i][j] * v[j]], Len(v))

\* C1: for bounds with lb[i] <= ub[i] on u and x, one call of update() sets
\* x.val to clampX(x0 + (A*x0 + B*u0)*dt), where x0 and u0 are x.val and
\* u.val clamped to their own bounds as the call starts.
C1_StateUpdate ==
    [][ (lastOp' = "update" /\ Ordered(sys.u) /\ Ordered(sys.x)) =>
          LET u0 == Clamped(sys.u)
              x0 == Clamped(sys.x)
          IN  \A i \in 1..NX :
                  sys'.x.val[i] =
                      ClampTo(x0[i] + (RowTimes(sys.a, i, x0)
                                         + RowTimes(sys.b, i, u0)) * sys.dt,
                              sys.x.lb[i], sys.x.ub[i]) ]_vars

\* C1 witness: the second-order system A = [0 1; -1 -1], B = [1; 1], dt = 1,
\* started at x = 0 with the step input u = 1, after two calls of update():
\* x = (1, 1) after the first and x = (3, 0) after the second.
C1_Witness ==
    /\ lastOp = "update"
    /\ nupd = 2
    /\ sys.a = << <<0, 1>>, <<-1, -1>> >>
    /\ sys.b = << <<1>>, <<1>> >>
    /\ sys.dt = 1
    /\ get_u(sys) = <<1>>
    /\ get_x(sys) = <<3, 0>>

\* C2: after a call of update(), y.val = clampY(C*x0 + D*u0) with x0 and u0
\* the clamped x.val and u.val of the start of that call (clamp being
\* SysVec::clamp); and with C the identity, D zero and bounds that do not
\* bind, the y read after a call is the x that was in place before it.
C2_OutputUsesPreStep ==
    [][ lastOp' = "update" =>
          LET u0 == get_val(SysVec_clamp(sys.u))
              x0 == get_val(SysVec_clamp(sys.x))
              yn == [i \in 1..NY |-> RowTimes(sys.c, i, x0) + RowTimes(sys.d, i, u0)]
          IN  /\ get_y(sys') = get_val(SysVec_clamp([sys.y EXCEPT !.val = yn]))
              /\ ( /\ sys.c = identity(NY, NX)
                   /\ sys.d = from_element_mat(NY, NU, 0)
                   /\ Within(sys.x)
                   /\ Within([sys.y EXCEPT !.val = get_x(sys)])
                   => get_y(sys') = get_x(sys) ) ]_vars

\* C2 witness: with C the identity and D zero, after two calls of update()
\* on a moving state, y holds the state before the last call, (1, 1), and
\* x the state after it, (3, 0).
C2_Witness ==
    /\ lastOp = "update"
    /\ nupd = 2
    /\ sys.c = identity(NY, NX)
    /\ sys.d = from_element_mat(NY, NU, 0)
    /\ get_y(sys) = <<1, 1>>
    /\ get_x(sys) = <<3, 0>>

\* C3: in the state right after every update() call, each of u, x and y
\* whose bounds satisfy lb[i] <= ub[i] has lb[i] <= val[i] <= ub[i] for
\* every i, whatever the setters put in before.
C3_BoundsAfterUpdate ==
    lastOp = "update" =>
        /\ Ordered(sys.u) => Within(sys.u)
        /\ Ordered(sys.x) => Within(sys.x)
        /\ Ordered(sys.y) => Within(sys.y)

\* C3 witness: after update(), u was set to 5 under bounds [-2, 2] and sits
\* at 2, x sits at its upper bound 4 and y at its upper bound 1.
C3_Witness ==
    /\ lastOp = "update"
    /\ sys.u = [val |-> <<2>>, lb |-> <<-2>>, ub |-> <<2>>]
    /\ sys.x.ub = <<4, 4>>
    /\ get_x(sys)[1] = 4
    /\ sys.y.ub = <<1, 1>>
    /\ get_y(sys)[1] = 1

\* C4: for bounds with lb[i] <= ub[i], clamp() sets each val[i] to
\* min(max(val[i], lb[i]), ub[i]); afterwards lb[i] <= val[i] <= ub[i], and
\* a component that was in range keeps its value.
C4_ClampResult ==
    [][ (lastOp' = "clamp" /\ Ordered(vec)) =>
          /\ \A i \in 1..N :
                 /\ vec'.val[i] = Min(Max(vec.val[i], vec.lb[i]), vec.ub[i])
                 /\ (vec.lb[i] <= vec.val[i] /\ vec.val[i] <= vec.ub[i]
                       => vec'.val[i] = vec.val[i])
          /\ Within(vec') ]_vars

\* C4 witness: the doc test of clamp() in units of 0.1: val = [1, -314.1,
\* 628.3] under lb = -5 and ub = 9 has become [1, -5, 9].
C4_Witness ==
    /\ lastOp = "clamp"
    /\ nclamp = 1
    /\ vec = [val |-> <<10, -50, 90>>,
              lb  |-> <<-50, -50, -50>>,
              ub  |-> <<90, 90, 90>>]

\* C5 as stated: u.val after a call of update() equals u.val before it, in
\* every state.
C5_InputUnchanged ==
    [][ lastOp' = "update" => get_u(sys') = get_u(sys) ]_vars

\* C5 as amended: update() leaves u.val unchanged whenever every component
\* of u.val lies within [lb, ub] as the call is made; otherwise it replaces
\* u.val by its clamp to u's bounds.  For bounds with lb[i] <= ub[i] an
\* input therefore persists, at its clamped value, from the first update()
\* on until the caller sets a new one.
C5_InputClampedThenKept ==
    [][ lastOp' = "update" =>
          /\ get_u(sys') = [i \in 1..NU |->
                               na_clamp(sys.u.val[i], sys.u.lb[i], sys.u.ub[i])]
          /\ (Within(sys.u) => get_u(sys') = get_u(sys))
          /\ (lastOp = "update" /\ Ordered(sys.u) => get_u(sys') = get_u(sys))
      ]_vars

\* C5 witness: the input u = 1, inside its bounds, is still 1 after two
\* calls of update() that moved the state.
C5_Witness ==
    /\ lastOp = "update"
    /\ nupd = 2
    /\ Within(sys.u)
    /\ get_u(sys) = <<1>>
    /\ get_x(sys) # from_element(NX, 0)

\* C6 as stated: for every val, lb and ub, a second clamp() right after a
\* first leaves val as the first left it.
C6_ClampIdempotentAnyBounds ==
    [][ (lastOp = "clamp" /\ lastOp' = "clamp") => vec'.val = vec.val ]_vars

\* C6 as amended: for every val and all bounds with lb[i] <= ub[i], a second
\* clamp() right after a first leaves val as the first left it.
C6_ClampIdempotent ==
    [][ (lastOp = "clamp" /\ lastOp' = "clamp" /\ Ordered(vec))
          => vec'.val = vec.val ]_vars

\* C6 witness: clamp() has been called twice in a row on a vector that the
\* first call changed (two components sit at the bounds -5 and 9, which no
\* setter passed in as a value).
C6_Witness ==
    /\ lastOp = "clamp"
    /\ nclamp = 2
    /\ Ordered(vec)
    /\ vec.lb = <<-50, -50, -50>>
    /\ vec.ub = <<90, 90, 90>>
    /\ vec.val = <<10, -50, 90>>

\* C7: two independently constructed models given the same configuration
\* and the same calls hold identical x and y after every update() call,
\* whatever value y held before.
C7_StepDeterminism ==
    lastOp = "update" =>
        /\ get_y(sys) = get_y(twin)
        /\ get_x(sys) = get_x(twin)
        /\ get_u(sys) = get_u(twin)

\* C7 witness: the two models held different y.val when update() was
\* called, and the call produced a non-zero output.
C7_Witness ==
    /\ lastOp = "update"
    /\ ydiff
    /\ get_y(sys) # from_element(NY, 0)
    /\ get_x(sys) # from_element(NX, 0)

\* The fields of a model other than u, x and y.
Config(m) == <<m.a, m.b, m.c, m.d, m.dt>>

\* C8: set_u, set_x and set_y replace exactly that vector by the one given,
\* value and bounds as they are, and the getter then returns the value
\* given even when it lies outside the bounds; set_val, set_lb and set_ub
\* replace only val, lb and ub, do not clamp, and set in either order give
\* the same vector.
C8_SettersReplaceOneField ==
    /\ [][ /\ lastOp' = "set_u" =>
                /\ sys'.u = arg' /\ get_u(sys') = arg'.val
                /\ sys'.x = sys.x /\ sys'.y = sys.y /\ Config(sys') = Config(sys)
           /\ lastOp' = "set_x" =>
                /\ sys'.x = arg' /\ get_x(sys') = arg'.val
                /\ sys'.u = sys.u /\ sys'.y = sys.y /\ Config(sys') = Config(sys)
           /\ lastOp' = "set_y" =>
                /\ sys'.y = arg' /\ get_y(sys') = arg'.val
                /\ sys'.u = sys.u /\ sys'.x = sys.x /\ Config(sys') = Config(sys)
         ]_vars
    /\ [](\A sv \in {sys.x, sys.y} :
            \A v \in {<<9, -9>>, <<0, 3>>}, lo \in {<<1, 1>>, <<-2, 5>>},
               hi \in {<<0, 0>>, <<4, 6>>} :
                /\ set_val(sv, v) = [val |-> v, lb |-> sv.lb, ub |-> sv.ub]
                /\ get_val(set_val(sv, v)) = v
                /\ set_lb(sv, lo) = [val |-> sv.val, lb |-> lo, ub |-> sv.ub]
                /\ set_ub(sv, hi) = [val |-> sv.val, lb |-> sv.lb, ub |-> hi]
                /\ set_val(set_ub(set_lb(sv, lo), hi), v)
                     = set_ub(set_lb(set_val(sv, v), lo), hi)
                /\ set_val(set_ub(set_lb(sv, lo), hi), v)
                     = [val |-> v, lb |-> lo, ub |-> hi])

\* C8 witness: set_x has just been given a value, 7, outside the bounds
\* [-4, 4] it came with, and get_x returns it as given.
C8_Witness ==
    /\ lastOp = "set_x"
    /\ ~Within(sys.x)
    /\ sys.x.ub = <<4, 4>>
    /\ get_x(sys) = <<7, 7>>

\* C9: StateSpace::new() yields zero A, B, C, D, dt = 1 and u, x, y with
\* zero val, lb at the negative and ub at the positive sentinel, SysVec::new()
\* the same zero value and sentinel bounds; and update() on a model that no
\* setter has touched keeps it there, x and y at zero.
C9_DefaultConstruction ==
    /\ nset = 0 =>
         sys = [a  |-> << <<0, 0>>, <<0, 0>> >>,
                b  |-> << <<0>>, <<0>> >>,
                c  |-> << <<0, 0>>, <<0, 0>> >>,
                d  |-> << <<0>>, <<0>> >>,
                u  |-> [val |-> <<0>>, lb |-> <<min_value>>, ub |-> <<max_value>>],
                x  |-> [val |-> <<0, 0>>, lb |-> <<min_value, min_value>>,
                        ub |-> <<max_value, max_value>>],
                y  |-> [val |-> <<0, 0>>, lb |-> <<min_value, min_value>>,
                        ub |-> <<max_value, max_value>>],
                dt |-> 1]
    /\ lastOp = "new" =>
         vec = [val |-> <<0, 0, 0>>,
                lb  |-> <<min_value, min_value, min_value>>,
                ub  |-> <<max_value, max_value, max_value>>]

\* C9 witness: a freshly constructed model on which update() has been
\* called twice and nothing else.
C9_Witness ==
    /\ nset = 0
    /\ nupd = 2
    /\ lastOp = "update"

\* C10: a call of update() leaves A, B, C, D, dt and the lb and ub of u, x
\* and y as they were.
C10_UpdateFrame ==
    [][ lastOp' = "update" =>
          /\ Config(sys') = Config(sys)
          /\ \A f \in {"u", "x", "y"} :
                 sys'[f].lb = sys[f].lb /\ sys'[f].ub = sys[f].ub ]_vars

\* C10 witness: update() has acted on a configured model, clamping u (set
\* to 5 under [-2, 2]) and x (under [-4, 4]).
C10_Witness ==
    /\ lastOp = "update"
    /\ sys.a # from_element_mat(NX, NX, 0)
    /\ sys.dt = 2
    /\ sys.u = [val |-> <<2>>, lb |-> <<-2>>, ub |-> <<2>>]
    /\ sys.x.lb = <<-4, -4>>
    /\ sys.x.ub = <<4, 4>>

\* C11: when update() is called on two models that agree on A, B, C, D, dt,
\* u, x and the lb and ub of y and differ in y.val, the two are identical
\* after the call, in x.val, u.val and y.val; and giving any model another
\* y.val under the same bounds does not change what update() makes of it.
C11_PreviousOutputIgnored ==
    /\ [][ ( /\ lastOp' = "update"
             /\ twin = [sys EXCEPT !.y.val = get_y(twin)]
             /\ get_y(twin) # get_y(sys) )
           => /\ get_x(sys') = get_x(twin')
              /\ get_u(sys') = get_u(twin')
              /\ get_y(sys') = get_y(twin')
              /\ sys' = twin' ]_vars
    /\ [](\A w \in YTwinVals \cup {<<-7, 2>>} :
            StateSpace_update(set_y(sys, set_val(sys.y, w)))
              = StateSpace_update(sys))

\* C11 witness: update() has been called on two models whose y.val differed,
\* under the bounds [-1, 1] that set_y carried in; both now hold the same
\* output, sitting at the upper bound.
C11_Witness ==
    /\ lastOp = "update"
    /\ ydiff
    /\ sys.y.lb = <<-1, -1>>
    /\ sys.y.ub = <<1, 1>>
    /\ get_y(sys)[1] = 1
    /\ twin = sys

=============================================================================
